---- MODULE Spec2Model ----
(***************************************************************************)
(* Model of the ic-asset client (client/src/main.rs): one synchronisation  *)
(* run of a local directory tree against the remote asset store.           *)
(*                                                                         *)
(* A run fetches the remote manifest (list), walks the local tree packing  *)
(* changed files into chunks of CHUNK_SIZE bytes, appends Delete items for *)
(* the remote entries left unmatched, joins the chunk uploads and finally  *)
(* commits.                                                                *)
(*                                                                         *)
(* File contents are modelled as byte ranges: a blob is a sequence of      *)
(* slices [key, off, n] (n bytes of file `key` starting at offset `off`),  *)
(* so a blob's length is the sum of its slices' n.                         *)
(***************************************************************************)
EXTENDS Integers, Sequences, FiniteSets, TLC

(* ---------------------------------------------------------------------- *)
(* Program constant and model bounds                                       *)
(* ---------------------------------------------------------------------- *)

\* const CHUNK_SIZE: usize = 2_000_000;
CHUNK_SIZE == 2000000

\* Largest number of directory entries the walk yields in one run.
MaxFiles == 2

\* Largest number of whole chunks a single file spans.
MaxSpan == 1

\* A small file length used to build the file sizes of the model.
Small == 500

\* Relative paths found under the root, and the names the remote store knows.
Paths == {"a.txt", "b.png", "c"}

\* File lengths reported by fs::metadata: empty, small, the lengths that
\* exactly fill a chunk (alone, or after a Small file), and spanning lengths.
Sizes ==
    {0, Small, CHUNK_SIZE - Small}
        \cup {k * CHUNK_SIZE : k \in 1..MaxSpan}
        \cup {MaxSpan * CHUNK_SIZE + Small}

\* Modification times in microseconds since the epoch.
MTimes == {1000999, 2000000}

\* How many bytes more (or fewer) than metadata.len() the file holds when read.
Drifts == {-1, 0, 1}

\* Which read call on the file fails (0: none).
FailAts == 0..(MaxSpan + 1)

\* (size, timestamp) pairs of remote manifest entries.
RemoteMetas == {<<Small, 1000>>, <<CHUNK_SIZE, 1000>>}

(* ---------------------------------------------------------------------- *)
(* Pure helpers                                                            *)
(* ---------------------------------------------------------------------- *)

\* `size as u32` / `len as u32`: the low 32 bits, computed on 16-bit halves
U32(n) == (n % 65536) + 65536 * ((n \div 65536) % 65536)

\* format!("/{}", relative path)
Key(p) == "/" \o p

\* All remote names, in the iteration order of BTreeMap<String, _>.
SortedNames == <<"/a.txt", "/b.png", "/c">>

\* mime_guess::from_path(&key).first_or_text_plain().to_string()
ContentType(key) ==
    CASE key = "/a.txt" -> "text/plain"
      [] key = "/b.png" -> "image/png"
      [] OTHER -> "text/plain"

\* metadata.modified()?.duration_since(UNIX_EPOCH)?.as_millis()
AsMillis(micros) == micros \div 1000

RECURSIVE BlobLen(_)
\* blob.len()
BlobLen(blob) ==
    IF blob = <<>> THEN 0 ELSE Head(blob).n + BlobLen(Tail(blob))

\* blob.extend_from_slice(..) / read_to_end(&mut blob) of n bytes at off
Extend(blob, key, off, n) ==
    IF n = 0 THEN blob ELSE Append(blob, [key |-> key, off |-> off, n |-> n])

\* storage::Item { key, data_type, len, timestamp, content_type }
Item(key, dt, len, ts, ct) ==
    [key |-> key, data_type |-> dt, len |-> U32(len), timestamp |-> ts,
     content_type |-> ct]

\* UploadBlob as if creating the future started the request (a spawned task).
UploadBlobEager(id, blob, item, isFinal) ==
    [id |-> id, blob |-> blob, item |-> item, is_final |-> isFinal,
     status |-> "sent"]

\* upload_blob(&service, id, blob, item, is_final): the future, not yet polled
UploadBlob(id, blob, item, isFinal) ==
    [id |-> id, blob |-> blob, item |-> item, is_final |-> isFinal,
     status |-> "created"]

RECURSIVE Collect(_, _)
\* res.into_iter().map(|m| (m.name.clone(), m)).collect(): later entries of
\* the response replace earlier ones of the same name
Collect(res, map) ==
    IF res = <<>> THEN map
    ELSE Collect(Tail(res),
                 [n \in DOMAIN map \cup {Head(res).name} |->
                     IF n = Head(res).name THEN Head(res) ELSE map[n]])

\* The empty BTreeMap
EmptyMap == [n \in {} |-> 0]

(* ---------------------------------------------------------------------- *)
(* State                                                                   *)
(* ---------------------------------------------------------------------- *)

VARIABLES
    pc,        \* position of main: "list", "walk", "join", "commit", "done", "failed"
    existing,  \* let mut existing: BTreeMap<String, Metadata>
    size,      \* let mut size: remaining capacity of the pending chunk
    blob,      \* let mut blob: bytes of the pending chunk
    item,      \* let mut item: items of the pending chunk
    id,        \* let mut id: next sequence id
    futures,   \* let mut futures: the upload futures, in creation order
    commits,   \* number of service.commit() calls issued
    manifest,  \* history: the map list() returned
    walked     \* history: the entries the walk has yielded, in order

vars == <<pc, existing, size, blob, item, id, futures, commits, manifest, walked>>

\* Names of the entries yielded so far.
Visited == {walked[i].key : i \in 1..Len(walked)}

\* One entry of the history `walked`.
Entry(key, len, ts, avail, outcome) ==
    [key |-> key, len |-> len, timestamp |-> ts, avail |-> avail,
     outcome |-> outcome]

\* storage::Metadata { name, size, timestamp }
Metadata(name, sz, ts) == [name |-> name, size |-> sz, timestamp |-> ts]

\* The responses of service.list(): vectors of Metadata with distinct names.
ListResponses ==
    LET Choices == [1..Len(SortedNames) -> {<<>>} \cup RemoteMetas]
        Resp(c) ==
            LET F[i \in 0..Len(SortedNames)] ==
                    IF i = 0 THEN <<>>
                    ELSE IF c[i] = <<>> THEN F[i - 1]
                    ELSE Append(F[i - 1],
                                Metadata(SortedNames[i], c[i][1], c[i][2]))
            IN  F[Len(SortedNames)]
    IN  {Resp(c) : c \in Choices}

(* ---------------------------------------------------------------------- *)
(* The chunk assembler: body of the for loop, lines 61-91                  *)
(* ---------------------------------------------------------------------- *)

\* The assembler's variables as one record.
Asm == [ok |-> TRUE, size |-> size, blob |-> blob, item |-> item, id |-> id,
        futures |-> futures]

\* NeedsChunk with the comparison not strict.
NeedsChunkOrEqual(sz, len) == sz <= len

\* while size < len  (line 64)
NeedsChunk(sz, len) == sz < len

\* f.read_exact(&mut buf)? with buf = vec![0; size]: an empty buffer is
\* filled without touching the file; otherwise the call fails when the file
\* reports an error or ends before `size` more bytes (line 66).
ReadExactFails(st, f, pos, nread) ==
    st.size > 0 /\ (f.failAt = nread \/ pos + st.size > f.avail)

\* NextDataType without the switch to Append.
NextDataTypeKept(dt) == dt

\* data_type = storage::DataType::Append  (line 80)
NextDataType(dt) == "Append"

\* FillChunk with the item's len taken from CHUNK_SIZE instead of size.
FillChunkFullLen(st, f, pos, dt) ==
    LET b  == Extend(st.blob, f.key, pos, st.size)
        it == Append(st.item,
                     Item(f.key, dt, CHUNK_SIZE, f.timestamp, f.content_type))
    IN  [ok      |-> TRUE,
         size    |-> CHUNK_SIZE,
         blob    |-> <<>>,
         item    |-> <<>>,
         id      |-> st.id + 1,
         futures |-> Append(st.futures, UploadBlob(st.id, b, it, FALSE))]

\* FillChunk without id += 1.
FillChunkSameId(st, f, pos, dt) ==
    LET b  == Extend(st.blob, f.key, pos, st.size)
        it == Append(st.item,
                     Item(f.key, dt, st.size, f.timestamp, f.content_type))
    IN  [ok      |-> TRUE,
         size    |-> CHUNK_SIZE,
         blob    |-> <<>>,
         item    |-> <<>>,
         id      |-> st.id,
         futures |-> Append(st.futures, UploadBlob(st.id, b, it, FALSE))]

\* FillChunk awaiting the upload of the chunk on the spot.
FillChunkAwaited(st, f, pos, dt) ==
    LET b  == Extend(st.blob, f.key, pos, st.size)
        it == Append(st.item,
                     Item(f.key, dt, st.size, f.timestamp, f.content_type))
    IN  [ok      |-> TRUE,
         size    |-> CHUNK_SIZE,
         blob    |-> <<>>,
         item    |-> <<>>,
         id      |-> st.id + 1,
         futures |-> Append(st.futures,
                            [UploadBlob(st.id, b, it, FALSE)
                                EXCEPT !.status = "ok"])]

\* FillChunk without blob.clear().
FillChunkNoClear(st, f, pos, dt) ==
    LET b  == Extend(st.blob, f.key, pos, st.size)
        it == Append(st.item,
                     Item(f.key, dt, st.size, f.timestamp, f.content_type))
    IN  [ok      |-> TRUE,
         size    |-> CHUNK_SIZE,
         blob    |-> b,
         item    |-> <<>>,
         id      |-> st.id + 1,
         futures |-> Append(st.futures, UploadBlob(st.id, b, it, FALSE))]

\* One successful turn of the while loop, lines 65-81: fill the pending
\* chunk with `size` bytes of f, push its item, create the upload future of
\* the chunk and start an empty one.
FillChunk(st, f, pos, dt) ==
    LET b  == Extend(st.blob, f.key, pos, st.size)
        it == Append(st.item,
                     Item(f.key, dt, st.size, f.timestamp, f.content_type))
    IN  [ok      |-> TRUE,
         size    |-> CHUNK_SIZE,
         blob    |-> <<>>,
         item    |-> <<>>,
         id      |-> st.id + 1,
         futures |-> Append(st.futures, UploadBlob(st.id, b, it, FALSE))]

\* ReadRest without size -= len.
ReadRestNoSub(st, f, len, pos, dt, nread) ==
    IF f.failAt = nread
    THEN [st EXCEPT !.ok = FALSE]
    ELSE [st EXCEPT
            !.blob = Extend(st.blob, f.key, pos, f.avail - pos),
            !.item = Append(st.item,
                            Item(f.key, dt, len, f.timestamp, f.content_type))]

\* ReadRest with the item's len taken from the remaining capacity.
ReadRestItemSize(st, f, len, pos, dt, nread) ==
    IF f.failAt = nread
    THEN [st EXCEPT !.ok = FALSE, !.size = st.size - len]
    ELSE [st EXCEPT
            !.size = st.size - len,
            !.blob = Extend(st.blob, f.key, pos, f.avail - pos),
            !.item = Append(st.item,
                            Item(f.key, dt, st.size, f.timestamp,
                                 f.content_type))]

\* After the loop, lines 83-91: size -= len; f.read_to_end(&mut blob)?;
\* item.push(..). read_to_end appends every byte left in the file.
ReadRest(st, f, len, pos, dt, nread) ==
    IF f.failAt = nread
    THEN [st EXCEPT !.ok = FALSE, !.size = st.size - len]
    ELSE [st EXCEPT
            !.size = st.size - len,
            !.blob = Extend(st.blob, f.key, pos, f.avail - pos),
            !.item = Append(st.item,
                            Item(f.key, dt, len, f.timestamp, f.content_type))]

RECURSIVE ReadLoop(_, _, _, _, _, _)
\* Lines 64-91 for one file. st: assembler record; f: the open file
\* [key, timestamp, content_type, avail, failAt]; len: bytes of the file
\* still to pack; pos: read position; dt: data_type; nread: number of the
\* next read call on f.
ReadLoop(st, f, len, pos, dt, nread) ==
    IF NeedsChunk(st.size, len)
    THEN IF ReadExactFails(st, f, pos, nread)
         THEN [st EXCEPT !.ok = FALSE]
         ELSE ReadLoop(FillChunk(st, f, pos, dt), f, len - st.size,
                       pos + st.size, NextDataType(dt), nread + 1)
    ELSE ReadRest(st, f, len, pos, dt, nread)

\* Remove that leaves the map as it is.
RemoveNothing(map, key) == map

\* if let Some(i) = existing.remove(&key)
Remove(map, key) == [n \in DOMAIN map \ {key} |-> map[n]]

\* Unchanged comparing the timestamp only.
UnchangedByTime(map, key, len, ts) ==
    /\ key \in DOMAIN map
    /\ map[key].timestamp = ts

\* i.timestamp == timestamp && i.size as usize == len
Unchanged(map, key, len, ts) ==
    /\ key \in DOMAIN map
    /\ map[key].timestamp = ts
    /\ map[key].size = len

(* ---------------------------------------------------------------------- *)
(* Actions                                                                 *)
(* ---------------------------------------------------------------------- *)

Init ==
    /\ pc = "list"
    /\ existing = EmptyMap
    /\ size = CHUNK_SIZE
    /\ blob = <<>>
    /\ item = <<>>
    /\ id = 0
    /\ futures = <<>>
    /\ commits = 0
    /\ manifest = EmptyMap
    /\ walked = <<>>

\* let mut existing = list(&service).await?;  (success)
List ==
    /\ pc = "list"
    /\ \E res \in ListResponses :
          /\ existing' = Collect(res, EmptyMap)
          /\ manifest' = Collect(res, EmptyMap)
    /\ pc' = "walk"
    /\ UNCHANGED <<size, blob, item, id, futures, commits, walked>>

\* list(&service).await? returns the error
ListError ==
    /\ pc = "list"
    /\ pc' = "failed"
    /\ UNCHANGED <<existing, size, blob, item, id, futures, commits, manifest,
                   walked>>

\* The walk yields an error for an entry: .filter_map(|e| e.ok()) drops it.
WalkError ==
    /\ pc = "walk"
    /\ Len(walked) < MaxFiles
    /\ \E p \in Paths :
          /\ Key(p) \notin Visited
          /\ walked' = Append(walked, Entry(Key(p), 0, 0, 0, "walk_error"))
    /\ UNCHANGED <<pc, existing, size, blob, item, id, futures, commits,
                   manifest>>

\* fs::metadata(..)?, .modified()? or .duration_since(..)? returns the error
ScanError ==
    /\ pc = "walk"
    /\ Len(walked) < MaxFiles
    /\ \E p \in Paths :
          /\ Key(p) \notin Visited
          /\ walked' = Append(walked, Entry(Key(p), 0, 0, 0, "scan_error"))
    /\ pc' = "failed"
    /\ UNCHANGED <<existing, size, blob, item, id, futures, commits, manifest>>

\* SkipFile looking the key up without removing it.
SkipFileKeepsEntry ==
    /\ pc = "walk"
    /\ Len(walked) < MaxFiles
    /\ \E p \in Paths, len \in Sizes, mt \in MTimes :
          LET key == Key(p)
              ts  == AsMillis(mt)
          IN  /\ key \notin Visited
              /\ Unchanged(existing, key, len, ts)
              /\ walked' = Append(walked, Entry(key, len, ts, len, "skipped"))
    /\ UNCHANGED <<pc, existing, size, blob, item, id, futures, commits,
                   manifest>>

\* The entry matches its remote entry: println!("skipping {key}"); continue
SkipFile ==
    /\ pc = "walk"
    /\ Len(walked) < MaxFiles
    /\ \E p \in Paths, len \in Sizes, mt \in MTimes :
          LET key == Key(p)
              ts  == AsMillis(mt)
          IN  /\ key \notin Visited
              /\ Unchanged(existing, key, len, ts)
              /\ existing' = Remove(existing, key)
              /\ walked' = Append(walked, Entry(key, len, ts, len, "skipped"))
    /\ UNCHANGED <<pc, size, blob, item, id, futures, commits, manifest>>

\* The entry needs upload but fs::File::open(p.path())? returns the error
OpenError ==
    /\ pc = "walk"
    /\ Len(walked) < MaxFiles
    /\ \E p \in Paths, len \in Sizes, mt \in MTimes :
          LET key == Key(p)
              ts  == AsMillis(mt)
          IN  /\ key \notin Visited
              /\ ~Unchanged(existing, key, len, ts)
              /\ existing' = Remove(existing, key)
              /\ walked' = Append(walked, Entry(key, len, ts, 0, "open_error"))
    /\ pc' = "failed"
    /\ UNCHANGED <<size, blob, item, id, futures, commits, manifest>>

\* The entry needs upload: lines 61-91, with the reads succeeding or failing
UploadFile ==
    /\ pc = "walk"
    /\ Len(walked) < MaxFiles
    /\ \E p \in Paths, len \in Sizes, mt \in MTimes, d \in Drifts,
          fa \in FailAts :
          LET key == Key(p)
              ts  == AsMillis(mt)
              f   == [key |-> key, timestamp |-> ts,
                      content_type |-> ContentType(key),
                      avail |-> len + d, failAt |-> fa]
              r   == ReadLoop(Asm, f, len, 0, "New", 1)
          IN  /\ key \notin Visited
              /\ len + d >= 0
              /\ ~Unchanged(existing, key, len, ts)
              /\ existing' = Remove(existing, key)
              /\ size' = r.size
              /\ blob' = r.blob
              /\ item' = r.item
              /\ id' = r.id
              /\ futures' = r.futures
              /\ pc' = IF r.ok THEN "walk" ELSE "failed"
              /\ walked' = Append(walked,
                                  Entry(key, len, ts, len + d,
                                        IF r.ok THEN "uploaded"
                                        ELSE "read_error"))
    /\ UNCHANGED <<commits, manifest>>

\* The Delete items of lines 93-102, in the order of existing.into_values()
DeleteItems(map) ==
    LET F[i \in 0..Len(SortedNames)] ==
            IF i = 0 THEN <<>>
            ELSE IF SortedNames[i] \in DOMAIN map
                 THEN Append(F[i - 1],
                             Item(map[SortedNames[i]].name, "Delete", 0, 0, ""))
                 ELSE F[i - 1]
    IN  F[Len(SortedNames)]

\* EndWalk with the Delete items put in front of the pending items.
EndWalkDeletesFirst ==
    /\ pc = "walk"
    /\ item' = DeleteItems(existing) \o item
    /\ futures' = Append(futures, UploadBlob(id, blob, item', TRUE))
    /\ existing' = EmptyMap
    /\ pc' = "join"
    /\ UNCHANGED <<size, blob, id, commits, manifest, walked>>

\* The walk is exhausted: lines 93-103
EndWalk ==
    /\ pc = "walk"
    /\ item' = item \o DeleteItems(existing)
    /\ futures' = Append(futures, UploadBlob(id, blob, item', TRUE))
    /\ existing' = EmptyMap
    /\ pc' = "join"
    /\ UNCHANGED <<size, blob, id, commits, manifest, walked>>

\* try_join_all polls the next future for the first time: upload_blob runs
\* up to service.upload(..).await and the request leaves for the store.
Poll ==
    /\ pc = "join"
    /\ \E i \in 1..Len(futures) :
          /\ futures[i].status = "created"
          /\ \A j \in 1..(i - 1) : futures[j].status # "created"
          /\ futures' = [futures EXCEPT ![i].status = "sent"]
    /\ UNCHANGED <<pc, existing, size, blob, item, id, commits, manifest, walked>>

\* One upload resolves with success.
UploadOk ==
    /\ pc = "join"
    /\ \E i \in 1..Len(futures) :
          /\ futures[i].status = "sent"
          /\ futures' = [futures EXCEPT ![i].status = "ok"]
    /\ UNCHANGED <<pc, existing, size, blob, item, id, commits, manifest, walked>>

\* UploadError with a join that keeps waiting for the other uploads.
UploadErrorKeepsJoining ==
    /\ pc = "join"
    /\ \E i \in 1..Len(futures) :
          /\ futures[i].status = "sent"
          /\ futures' = [futures EXCEPT ![i].status = "failed"]
    /\ UNCHANGED <<pc, existing, size, blob, item, id, commits, manifest, walked>>

\* One upload resolves with an error: try_join_all returns it at once, `?`
\* returns from main and the other futures are dropped.
UploadError ==
    /\ pc = "join"
    /\ \E i \in 1..Len(futures) :
          /\ futures[i].status = "sent"
          /\ futures' = [j \in 1..Len(futures) |->
                IF j = i THEN [futures[j] EXCEPT !.status = "failed"]
                ELSE IF futures[j].status = "sent"
                     THEN [futures[j] EXCEPT !.status = "dropped"]
                     ELSE futures[j]]
    /\ pc' = "failed"
    /\ UNCHANGED <<existing, size, blob, item, id, commits, manifest, walked>>

\* JoinOk with a join that returns as soon as one upload has succeeded.
JoinAny ==
    /\ pc = "join"
    /\ \E i \in 1..Len(futures) : futures[i].status = "ok"
    /\ IF id > 0
       THEN /\ commits' = commits + 1
            /\ pc' = "commit"
       ELSE /\ commits' = commits
            /\ pc' = "done"
    /\ UNCHANGED <<existing, size, blob, item, id, futures, manifest, walked>>

\* try_join_all returns Ok: if id > 0 { service.commit() is called }
JoinOk ==
    /\ pc = "join"
    /\ \A i \in 1..Len(futures) : futures[i].status = "ok"
    /\ IF id > 0
       THEN /\ commits' = commits + 1
            /\ pc' = "commit"
       ELSE /\ commits' = commits
            /\ pc' = "done"
    /\ UNCHANGED <<existing, size, blob, item, id, futures, manifest, walked>>

\* service.commit().await? returns Ok
CommitOk ==
    /\ pc = "commit"
    /\ pc' = "done"
    /\ UNCHANGED <<existing, size, blob, item, id, futures, commits, manifest,
                   walked>>

\* service.commit().await? returns the error
CommitError ==
    /\ pc = "commit"
    /\ pc' = "failed"
    /\ UNCHANGED <<existing, size, blob, item, id, futures, commits, manifest,
                   walked>>

Next ==
    \/ List
    \/ ListError
    \/ WalkError
    \/ ScanError
    \/ SkipFile
    \/ OpenError
    \/ UploadFile
    \/ EndWalk
    \/ Poll
    \/ UploadOk
    \/ UploadError
    \/ JoinOk
    \/ CommitOk
    \/ CommitError

Spec == Init /\ [][Next]_vars

(* ---------------------------------------------------------------------- *)
(* Vocabulary of the properties                                            *)
(* ---------------------------------------------------------------------- *)

\* The assembly pass is complete: the final chunk's future has been created.
Assembled == Len(futures) > 0 /\ futures[Len(futures)].is_final

\* Every upload of the run has succeeded and the join has returned.
Joined ==
    /\ Assembled
    /\ pc # "join"
    /\ \A i \in 1..Len(futures) : futures[i].status = "ok"

\* Positions <<chunk, index>> of the items of the chunks created so far.
ItemRefs ==
    UNION {{<<i, j>> : j \in 1..Len(futures[i].item)} : i \in 1..Len(futures)}

ItemAt(r) == futures[r[1]].item[r[2]]

\* Positions of the items of key k whose data_type is in types.
RefsOf(k, types) ==
    {r \in ItemRefs : ItemAt(r).key = k /\ ItemAt(r).data_type \in types}

\* r is emitted before q: lower chunk, or same chunk and earlier position.
Before(r, q) == r[1] < q[1] \/ (r[1] = q[1] /\ r[2] < q[2])

RECURSIVE SumLen(_)
\* Sum of len over a set of item positions.
SumLen(S) ==
    IF S = {} THEN 0
    ELSE LET r == CHOOSE x \in S : TRUE
         IN  ItemAt(r).len + SumLen(S \ {r})

\* Indices in `walked` of the local entries the walk yielded with metadata.
Locals ==
    {i \in 1..Len(walked) :
        walked[i].outcome \notin {"walk_error", "scan_error"}}

LocalKeys == {walked[i].key : i \in Locals}

\* The local entry i equals its remote entry in size and timestamp.
Same(i) ==
    /\ walked[i].key \in DOMAIN manifest
    /\ manifest[walked[i].key].size = walked[i].len
    /\ manifest[walked[i].key].timestamp = walked[i].timestamp

\* Keys of the local entries that need upload, and remote-only keys.
ChangedKeys == {walked[i].key : i \in {j \in Locals : ~Same(j)}}

RemoteOnly == DOMAIN manifest \ LocalKeys

\* Every file read so far held exactly the bytes its metadata reported.
NoDrift == \A i \in Locals : walked[i].avail = walked[i].len

\* The requests that have left for the remote store.
Sent == {i \in 1..Len(futures) : futures[i].status # "created"}

(* ---------------------------------------------------------------------- *)
(* Properties                                                              *)
(* ---------------------------------------------------------------------- *)

\* C1: in every run with something to upload or to delete whose chunk
\* uploads all succeeded, exactly one commit call has been issued.
C1_CommitOnce ==
    (Joined /\ (ChangedKeys # {} \/ RemoteOnly # {})) => commits = 1

\* C2: in a run where every local entry matches its remote entry and no
\* remote entry lacks a local counterpart, no chunk upload is submitted and
\* commit is not called.
C2_NoOpRun ==
    (/\ pc \in {"join", "commit", "done"}
     /\ ChangedKeys = {}
     /\ RemoteOnly = {})
        => (Sent = {} /\ commits = 0)

\* C3: commit is called only after every chunk upload of the run has
\* succeeded; once an upload has failed the run has failed and commit has
\* not been, and will not be, called.
C3_CommitAfterAllOk ==
    /\ commits > 0 => (Assembled /\ \A i \in 1..Len(futures) : futures[i].status = "ok")
    /\ (\E i \in 1..Len(futures) : futures[i].status = "failed")
          => (pc = "failed" /\ commits = 0)

\* C3 witness: a run with several chunks (so that a commit was due) in which
\* one upload succeeded and another one then failed.
C3_Witness ==
    /\ id > 0
    /\ \E i, j \in 1..Len(futures) :
          futures[i].status = "ok" /\ futures[j].status = "failed"

\* C4: diff correctness. Once the chunks are assembled: a local entry equal
\* to its remote entry in size and timestamp has no item at all; any other
\* local entry has New/Append items and no Delete item; a remote-only key
\* has a Delete item and no New/Append item; no other key has an item, and
\* no key is both uploaded and deleted.
C4_DiffCorrect ==
    Assembled =>
        /\ \A i \in Locals :
              IF Same(i)
              THEN RefsOf(walked[i].key, {"New", "Append", "Delete"}) = {}
              ELSE /\ RefsOf(walked[i].key, {"New", "Append"}) # {}
                   /\ RefsOf(walked[i].key, {"Delete"}) = {}
        /\ \A k \in RemoteOnly :
              /\ RefsOf(k, {"Delete"}) # {}
              /\ RefsOf(k, {"New", "Append"}) = {}
        /\ \A r \in ItemRefs : ItemAt(r).key \in LocalKeys \cup DOMAIN manifest
        /\ \A r, q \in ItemRefs :
              (ItemAt(r).data_type = "Delete" /\ ItemAt(q).data_type # "Delete")
                  => ItemAt(r).key # ItemAt(q).key

\* C4 witness: an assembled run with an unchanged local entry, a changed
\* local entry that the manifest also holds, and a remote-only entry.
C4_Witness ==
    /\ Assembled
    /\ \E i \in Locals : Same(i)
    /\ \E i \in Locals : walked[i].key \in DOMAIN manifest /\ ~Same(i)
    /\ RemoteOnly # {}

\* C5: chunk capacity. When every file held exactly the bytes its metadata
\* reported, every chunk with is_final = false has a blob of exactly
\* CHUNK_SIZE bytes and the chunk with is_final = true one of at most
\* CHUNK_SIZE bytes.
C5_ChunkCapacity ==
    NoDrift =>
        \A i \in 1..Len(futures) :
            IF futures[i].is_final
            THEN BlobLen(futures[i].blob) <= CHUNK_SIZE
            ELSE BlobLen(futures[i].blob) = CHUNK_SIZE

\* C5 witness: an assembled run of files of true length with a non-final
\* chunk packed from two files and a non-empty final chunk.
C5_Witness ==
    /\ Assembled
    /\ NoDrift
    /\ \E i \in 1..Len(futures) :
          ~futures[i].is_final /\ Len(futures[i].item) >= 2
    /\ BlobLen(futures[Len(futures)].blob) > 0

\* C6: item length conservation. For every uploaded file the sum of len
\* over its New and Append items, across all chunks, is the file's length.
C6_LenConservation ==
    Assembled =>
        \A i \in Locals :
            ~Same(i) =>
                SumLen(RefsOf(walked[i].key, {"New", "Append"})) = walked[i].len

\* C6 witness: an uploaded file spanning two chunks that started in a
\* pending chunk already holding another file's item.
C6_Witness ==
    /\ Assembled
    /\ \E i \in Locals :
          /\ ~Same(i)
          /\ Cardinality(RefsOf(walked[i].key, {"New", "Append"})) >= 2
          /\ \E r \in RefsOf(walked[i].key, {"New"}) : r[2] > 1

\* C7: single New per file. Every uploaded file has exactly one New item,
\* which precedes (in sequence id and position) every other item of the
\* file, all of which are Append items.
C7_SingleNew ==
    Assembled =>
        \A i \in Locals :
            ~Same(i) =>
                LET news == RefsOf(walked[i].key, {"New"})
                    rest == RefsOf(walked[i].key, {"Append", "Delete"})
                IN  /\ Cardinality(news) = 1
                    /\ \A n \in news, r \in rest :
                          /\ ItemAt(r).data_type = "Append"
                          /\ Before(n, r)
                          /\ futures[n[1]].id <= futures[r[1]].id

\* C7 witness: two uploaded files, each with a New item followed by an
\* Append item in a later chunk.
C7_Witness ==
    /\ Assembled
    /\ Cardinality({i \in Locals :
                      /\ ~Same(i)
                      /\ RefsOf(walked[i].key, {"Append"}) # {}}) >= 2

\* C8: deletion completeness. Every manifest key matched by no local entry
\* has exactly one Delete item, with len 0, timestamp 0 and empty content
\* type, and no item of another type; no other key has a Delete item.
C8_DeletionComplete ==
    Assembled =>
        /\ \A k \in RemoteOnly :
              /\ Cardinality(RefsOf(k, {"Delete"})) = 1
              /\ RefsOf(k, {"New", "Append"}) = {}
              /\ \A r \in RefsOf(k, {"Delete"}) :
                    /\ ItemAt(r).len = 0
                    /\ ItemAt(r).timestamp = 0
                    /\ ItemAt(r).content_type = ""
        /\ \A r \in ItemRefs :
              ItemAt(r).data_type = "Delete" => ItemAt(r).key \in RemoteOnly

\* C8 witness: an assembled run with two remote-only keys and a manifest key
\* that a local entry matched.
C8_Witness ==
    /\ Assembled
    /\ Cardinality(RemoteOnly) >= 2
    /\ LocalKeys \cap DOMAIN manifest # {}

\* C9: sequence ids and finality. The chunks created carry the ids 0, 1, ..
\* in creation order; only the last chunk created can have is_final = true,
\* and a run that reaches the join has created it.
C9_SequenceIds ==
    /\ \A i \in 1..Len(futures) :
          /\ futures[i].id = i - 1
          /\ futures[i].is_final => i = Len(futures)
    /\ pc \in {"join", "commit", "done"} => Assembled

\* C9 witness: a run that has created two non-final chunks and the final one.
C9_Witness ==
    /\ Assembled
    /\ Len(futures) >= 3

\* A filesystem failure of the local scan: metadata, open or read.
FsErrors == {"scan_error", "open_error", "read_error"}

\* C10: a filesystem failure on a local entry has terminated the run with an
\* error, no upload request has been sent to the store and commit has not
\* been called, whatever chunks earlier files had filled.
C10_ScanFailureSendsNothing ==
    \A i \in 1..Len(walked) :
        walked[i].outcome \in FsErrors
            => (pc = "failed" /\ Sent = {} /\ commits = 0)

\* C10 witness: a read failure on the second file after the first file had
\* filled a non-final chunk.
C10_Witness ==
    /\ pc = "failed"
    /\ Len(walked) = 2
    /\ walked[2].outcome = "read_error"
    /\ walked[1].outcome = "uploaded"
    /\ Len(futures) >= 1

\* C11: no error is silently recovered. An entry whose scan failed (the walk
\* yielded an error for it, or its metadata, open or read failed) never
\* lets the run complete successfully nor puts a Delete item for its key
\* into a chunk; a failed upload has terminated the run with a failure.
C11_NoSilentRecovery ==
    /\ \A i \in 1..Len(walked) :
          walked[i].outcome \in FsErrors \cup {"walk_error"}
              => (pc # "done" /\ RefsOf(walked[i].key, {"Delete"}) = {})
    /\ (\E i \in 1..Len(futures) : futures[i].status = "failed")
          => pc = "failed"

\* The step processes a local entry that needs upload, with all reads
\* succeeding; NewEntry is that entry.
UploadStep ==
    /\ pc = "walk"
    /\ Len(walked') = Len(walked) + 1
    /\ walked'[Len(walked')].outcome = "uploaded"

NewEntry == walked'[Len(walked')]

\* The step has emitted, as its first chunk, the pending chunk filled up
\* with `size` bytes of the new entry: a non-final chunk whose last item is
\* the entry's New item of len = size.
EmitsFilledChunk ==
    /\ Len(futures') > Len(futures)
    /\ LET c == futures'[Len(futures) + 1]
       IN  /\ ~c.is_final
           /\ c.blob = Extend(blob, NewEntry.key, 0, size)
           /\ c.item = Append(item,
                              Item(NewEntry.key, "New", size,
                                   NewEntry.timestamp,
                                   ContentType(NewEntry.key)))

DataRefs(i) ==
    {r \in ItemRefs : r[1] = i /\ ItemAt(r).data_type \in {"New", "Append"}}

\* C13: when every file held exactly the bytes its metadata reported, the
\* blob of every chunk is as long as the sum of len over the New and Append
\* items of that chunk.
C13_BlobLenIsItemSum ==
    NoDrift =>
        \A i \in 1..Len(futures) :
            BlobLen(futures[i].blob) = SumLen(DataRefs(i))

\* C13 witness: files of true length assembled into a non-final chunk with
\* items of two files and a final chunk with a data item and a Delete item.
C13_Witness ==
    /\ Assembled
    /\ NoDrift
    /\ Len(futures) >= 2
    /\ Cardinality(DataRefs(1)) >= 2
    /\ DataRefs(Len(futures)) # {}
    /\ \E r \in ItemRefs :
          r[1] = Len(futures) /\ ItemAt(r).data_type = "Delete"

\* Indices of the uploads in the given status.
InStatus(st) == {i \in 1..Len(futures) : futures[i].status = st}

\* C14 as claimed: when an upload has failed, the run does not terminate
\* before every other upload that was sent has resolved (ok or failed).
C14_OthersAwaited ==
    (pc = "failed" /\ InStatus("failed") # {})
        => \A i \in 1..Len(futures) :
              futures[i].status \in {"ok", "failed"}

\* C14 as amended: the step in which an upload fails terminates the run at
\* once; every other upload in flight is dropped unresolved, the uploads not
\* yet polled never start, and commit is not called.
C14_FailureDropsOthers ==
    [][(\E i \in 1..Len(futures) :
            futures[i].status = "sent" /\ futures'[i].status = "failed")
        => /\ pc' = "failed"
           /\ commits' = commits
           /\ Len(futures') = Len(futures)
           /\ \A j \in 1..Len(futures) :
                 /\ futures[j].status = "ok" => futures'[j].status = "ok"
                 /\ futures[j].status = "created"
                       => futures'[j].status = "created"
                 /\ futures[j].status = "sent"
                       => futures'[j].status \in {"failed", "dropped"}]_vars

\* C14 witness: a failed run in which one upload failed while another was
\* still in flight.
C14_Witness ==
    /\ pc = "failed"
    /\ InStatus("failed") # {}
    /\ InStatus("dropped") # {}

\* C15: fire-then-join. While the chunks are being assembled no upload has
\* been polled, let alone resolved; an upload is polled or resolved only
\* once every upload future of the run, the final chunk's included, exists.
C15_FireThenJoin ==
    /\ pc = "walk" => \A i \in 1..Len(futures) : futures[i].status = "created"
    /\ (\E i \in 1..Len(futures) : futures[i].status # "created")
          => (Assembled /\ pc # "walk")

\* C15 witness: the join of a run of three chunks in which the first upload
\* to resolve has succeeded.
C15_Witness ==
    /\ pc = "join"
    /\ Len(futures) >= 3
    /\ InStatus("ok") # {}

\* The position of the very last item of the run.
LastRef == <<Len(futures), Len(futures[Len(futures)].item)>>

\* C16 as claimed: every New or Append item of the run has len > 0, unless
\* it is the very last item of the run.
C16_NoZeroLenItem ==
    Assembled =>
        \A r \in ItemRefs :
            ItemAt(r).data_type \in {"New", "Append"}
                => (ItemAt(r).len > 0 \/ r = LastRef)

\* The walked entry of key k is an empty file.
EmptyFile(k) == \E i \in Locals : walked[i].key = k /\ walked[i].len = 0

\* The item at r closes a non-final chunk that the items before it had
\* already filled to CHUNK_SIZE, and its file continues with Append items.
ClosesFullChunk(r) ==
    /\ ~futures[r[1]].is_final
    /\ r[2] = Len(futures[r[1]].item)
    /\ SumLen(DataRefs(r[1]) \ {r}) = CHUNK_SIZE
    /\ \E q \in RefsOf(ItemAt(r).key, {"Append"}) : Before(r, q)

\* C16 as amended: every Append item has len > 0; a New item has len = 0
\* only for an empty file or for a file that started when the pending chunk
\* was exactly full, which does get a len = 0 New item closing that chunk.
C16_ZeroLenOnlyNew ==
    Assembled =>
        \A r \in ItemRefs :
            /\ ItemAt(r).data_type = "Append" => ItemAt(r).len > 0
            /\ (ItemAt(r).data_type = "New" /\ ItemAt(r).len = 0)
                  => (EmptyFile(ItemAt(r).key) \/ ClosesFullChunk(r))

\* C16 witness: a file of exactly CHUNK_SIZE bytes filled the pending chunk
\* and the next, non-empty file got a New item of len 0 in that chunk.
C16_Witness ==
    /\ Assembled
    /\ \E r \in ItemRefs :
          /\ ItemAt(r).data_type = "New"
          /\ ItemAt(r).len = 0
          /\ ~EmptyFile(ItemAt(r).key)
          /\ ClosesFullChunk(r)

RECURSIVE Drop(_, _)
\* The blob b without its first a bytes.
Drop(b, a) ==
    IF a = 0 \/ b = <<>> THEN b
    ELSE IF Head(b).n <= a THEN Drop(Tail(b), a - Head(b).n)
    ELSE <<[Head(b) EXCEPT !.off = @ + a, !.n = @ - a]>> \o Tail(b)

RECURSIVE Take(_, _)
\* The first n bytes of the blob b.
Take(b, n) ==
    IF n = 0 \/ b = <<>> THEN <<>>
    ELSE IF Head(b).n <= n THEN <<Head(b)>> \o Take(Tail(b), n - Head(b).n)
    ELSE <<[Head(b) EXCEPT !.n = n]>>

RECURSIVE Merge(_)
\* The blob b with adjacent ranges of one file joined where they are
\* contiguous.
Merge(b) ==
    IF Len(b) <= 1 THEN b
    ELSE LET x == b[1]
             y == b[2]
         IN  IF x.key = y.key /\ x.off + x.n = y.off
             THEN Merge(<<[x EXCEPT !.n = x.n + y.n]>> \o Tail(Tail(b)))
             ELSE <<x>> \o Merge(Tail(b))

\* The bytes of its chunk's blob that the item at r describes: len bytes
\* starting where the items before it end.
ItemSlice(r) ==
    Take(Drop(futures[r[1]].blob,
              SumLen({q \in DataRefs(r[1]) : q[2] < r[2]})),
         ItemAt(r).len)

RECURSIVE ContentFrom(_, _, _)
\* The slices of the items of key k, from chunk i, item j on, concatenated
\* in increasing sequence id and item order.
ContentFrom(k, i, j) ==
    IF i > Len(futures) THEN <<>>
    ELSE IF j > Len(futures[i].item) THEN ContentFrom(k, i + 1, 1)
    ELSE (IF /\ futures[i].item[j].key = k
             /\ futures[i].item[j].data_type \in {"New", "Append"}
          THEN ItemSlice(<<i, j>>)
          ELSE <<>>) \o ContentFrom(k, i, j + 1)

\* The bytes of a file of key k and length n, first to last.
WholeFile(k, n) ==
    IF n = 0 THEN <<>> ELSE <<[key |-> k, off |-> 0, n |-> n]>>

\* C17: round trip of content. For files of true length: the slices of the
\* items of an uploaded file, concatenated in sequence id and item order,
\* are the file's bytes from first to last; every item's slice holds bytes
\* of its own file only; every blob is the concatenation of its items'
\* slices; and the items of a file precede those of the files walked later.
C17_ContentRoundTrip ==
    (Assembled /\ NoDrift) =>
        /\ \A i \in Locals :
              ~Same(i) =>
                  Merge(ContentFrom(walked[i].key, 1, 1))
                      = WholeFile(walked[i].key, walked[i].len)
        /\ \A r \in ItemRefs :
              \A n \in 1..Len(ItemSlice(r)) :
                  ItemSlice(r)[n].key = ItemAt(r).key
        /\ \A c \in 1..Len(futures) :
              BlobLen(futures[c].blob) = SumLen(DataRefs(c))
        /\ \A i, j \in Locals :
              i < j =>
                  \A r \in RefsOf(walked[i].key, {"New", "Append"}),
                     q \in RefsOf(walked[j].key, {"New", "Append"}) :
                      Before(r, q)

\* C17 witness: two uploaded files of true length, the second one spanning
\* two chunks and starting in the chunk that holds the first.
C17_Witness ==
    /\ Assembled
    /\ NoDrift
    /\ Len(walked) = 2
    /\ ~Same(1) /\ ~Same(2)
    /\ walked[1].len > 0
    /\ Cardinality(RefsOf(walked[2].key, {"New", "Append"})) >= 2
    /\ \E r \in RefsOf(walked[2].key, {"New"}) : r[1] = 1 /\ r[2] = 2

\* C18: Delete items come last. Every Delete item is in the chunk with
\* is_final = true, after every New or Append item of that chunk; no
\* non-final chunk, and no pending item list during the walk, holds one.
C18_DeletesLast ==
    /\ \A r \in ItemRefs :
          ItemAt(r).data_type = "Delete"
              => /\ futures[r[1]].is_final
                 /\ \A q \in DataRefs(r[1]) : q[2] < r[2]
    /\ pc = "walk"
          => \A j \in 1..Len(item) : item[j].data_type # "Delete"

\* C18 witness: a run with a non-final chunk whose final chunk holds the
\* tail item of a file followed by a Delete item.
C18_Witness ==
    /\ Assembled
    /\ Len(futures) >= 2
    /\ DataRefs(Len(futures)) # {}
    /\ \E r \in ItemRefs :
          /\ r[1] = Len(futures)
          /\ ItemAt(r).data_type = "Delete"
          /\ r[2] > 1

\* Every item created so far, pending ones included, has 0 <= len <=
\* CHUNK_SIZE, so that `as u32` kept its value.
ItemLensFit ==
    /\ \A r \in ItemRefs : ItemAt(r).len >= 0 /\ ItemAt(r).len <= CHUNK_SIZE
    /\ \A j \in 1..Len(item) : item[j].len >= 0 /\ item[j].len <= CHUNK_SIZE

\* C19: assembler state. Between files and after every emission the
\* remaining capacity is within 0..CHUNK_SIZE (so size -= len did not
\* underflow), every item's len is at most CHUNK_SIZE, and, for files of
\* true length, size plus the pending blob's length is CHUNK_SIZE.
C19_AssemblerState ==
    pc # "failed" =>
        /\ size >= 0
        /\ size <= CHUNK_SIZE
        /\ ItemLensFit
        /\ NoDrift => size + BlobLen(blob) = CHUNK_SIZE

\* C19 witness: between files, after a file of true length has closed one
\* chunk and left bytes in the pending one.
C19_Witness ==
    /\ pc = "walk"
    /\ NoDrift
    /\ Len(futures) >= 1
    /\ size > 0
    /\ size < CHUNK_SIZE

\* C20: skipping an unchanged entry. A step that takes a local entry equal
\* to its remote entry in key, size and timestamp leaves the remaining
\* capacity, the pending blob and items, the next id and the futures as they
\* were, and only removes the key from `existing`.
C20_SkipFrame ==
    [][(/\ pc = "walk"
        /\ Len(walked') = Len(walked) + 1
        /\ NewEntry.outcome \notin {"walk_error", "scan_error"}
        /\ NewEntry.key \in DOMAIN existing
        /\ existing[NewEntry.key].size = NewEntry.len
        /\ existing[NewEntry.key].timestamp = NewEntry.timestamp)
        => /\ UNCHANGED <<pc, size, blob, item, id, futures, commits>>
           /\ DOMAIN existing' = DOMAIN existing \ {NewEntry.key}
           /\ \A n \in DOMAIN existing' : existing'[n] = existing[n]]_vars

\* C20 witness: an unchanged entry was skipped after a changed file had
\* left bytes and an item in the pending chunk.
C20_Witness ==
    /\ pc = "walk"
    /\ Len(walked) = 2
    /\ walked[1].outcome = "uploaded"
    /\ walked[2].outcome = "skipped"
    /\ item # <<>>
    /\ blob # <<>>
    /\ walked[2].key \notin DOMAIN existing

====
